---- MODULE Spec2Model ----
(***************************************************************************)
(* esp-remote: the device registry (registry.py, config.py), the tunnel    *)
(* manager (ssh.py) and the CLI commands that compose them (cli.py).       *)
(*                                                                         *)
(* One CLI invocation is one operating-system process: it owns a Registry  *)
(* snapshot (Registry._data) and its local variables.  The persisted       *)
(* document (devices.toml) and the process table are shared by all         *)
(* invocations.                                                            *)
(***************************************************************************)
EXTENDS Integers, Sequences, FiniteSets, TLC

\* ------------------------------------------------------------------ bounds

\* How many device names the operator uses.
NumNames == 3
\* Process ids the operating system hands out: 1..MaxPid.
MaxPid == 3
\* CLI invocations that may overlap in time.
NumInv == 2
\* Lines of output of one remote command.
MaxLines == 2
\* Bytes of one description in devices.toml.
MaxBytes == 4

\* next_port's default base (registry.py:90) and from_dict's default port.
DefaultBase == 4000

AllNames == <<"esp1", "esp2", "esp3", "esp4", "esp5">>
Names == {AllNames[k] : k \in 1..NumNames}
\* The names used where every field of a record varies.
FewNames == {"esp1", "esp2"}
Hosts == {"pi@h1", "pi@h2"}
ChipIds == {"0xA1", "0xB2"}
UsbPaths == {"", "1-1.2"}
Descriptions == {"", "bench"}
\* Bases handed to next_port.
Bases == {DefaultBase - 1, DefaultBase, DefaultBase + 1, DefaultBase + 2}
Inv == 1..NumInv
Pids == 1..MaxPid

VARIABLES
    disk,    \* devices.toml: [exists |-> BOOLEAN, device |-> name -> stored fields]
    procs,   \* the process table's forwarding processes
    pc,      \* pc[i]: where invocation i is
    cmd,     \* cmd[i]: the command line of invocation i
    data,    \* data[i]: Registry._data["device"] of invocation i
    loc      \* loc[i]: the local variables and the outcome of invocation i

vars == <<disk, procs, pc, cmd, data, loc>>

\* ---------------------------------------------------------------- registry

EmptyDoc == [n \in {} |-> [k \in {} |-> ""]]

\* dict.get(key, default)
DictGet(d, key, default) == IF key \in DOMAIN d THEN d[key] ELSE default

\* A mutant of to_dict: one port is written for both.
to_dict_one_port(d) ==
    [chip_id |-> d.chip_id, host |-> d.host, usb_path |-> d.usb_path,
     remote_port |-> d.remote_port, local_port |-> d.remote_port,
     description |-> d.description]

\* Device.to_dict
to_dict(d) ==
    [chip_id |-> d.chip_id, host |-> d.host, usb_path |-> d.usb_path,
     remote_port |-> d.remote_port, local_port |-> d.local_port,
     description |-> d.description]

\* Device.from_dict
from_dict(name, d) ==
    [name |-> name,
     chip_id |-> DictGet(d, "chip_id", ""),
     host |-> DictGet(d, "host", ""),
     usb_path |-> DictGet(d, "usb_path", ""),
     remote_port |-> DictGet(d, "remote_port", DefaultBase),
     local_port |-> DictGet(d, "local_port", DefaultBase),
     description |-> DictGet(d, "description", "")]

\* config.load_devices: the parsed file, or an empty registry when there is none.
load_devices(file) == IF file.exists THEN file.device ELSE EmptyDoc

\* config.save_devices: the file holds the whole document afterwards.
save_devices(doc) == [exists |-> TRUE, device |-> doc]

\* Registry.list_devices (as a set: the order of the entries is not modelled).
list_devices(doc) == {from_dict(n, doc[n]) : n \in DOMAIN doc}

\* A mutant of get_device: a name without an entry reads as a device with
\* the default fields.
get_device_or_default(doc, name) ==
    IF name \in DOMAIN doc THEN {from_dict(name, doc[name])}
    ELSE {from_dict(name, [k \in {} |-> ""])}

\* Registry.get_device: Optional[Device] as a set of at most one device.
\* An entry without fields is falsy and reads as None.
get_device(doc, name) ==
    IF name \in DOMAIN doc /\ DOMAIN doc[name] # {}
    THEN {from_dict(name, doc[name])}
    ELSE {}

\* A mutant of get_devices_by_host: the host filter is lost.
get_devices_by_host_anyhost(doc, host) == list_devices(doc)

\* Registry.get_devices_by_host
get_devices_by_host(doc, host) == {d \in list_devices(doc) : d.host = host}

\* A mutant of add_device: the document is rebuilt from the new record alone.
add_device_alone(doc, device) ==
    [n \in {device.name} |-> to_dict(device)]

\* Registry.add_device, before its save
add_device(doc, device) ==
    [n \in DOMAIN doc \cup {device.name} |->
        IF n = device.name THEN to_dict(device) ELSE doc[n]]

\* Registry.remove_device, before its save
remove_device(doc, name) == [n \in DOMAIN doc \ {name} |-> doc[n]]

\* Registry.remove_device writes the file whether or not the name is there.
remove_device_saves_always(doc, name) == TRUE

\* Registry.remove_device: save is called in the branch of a name that is
\* there, and nowhere else.
remove_device_saves(doc, name) == name \in DOMAIN doc

\* A mutant of the loop of next_port: the port after the highest one in use.
port_scan_above(used, port) ==
    IF \E u \in used : u >= port
    THEN (CHOOSE u \in used : \A v \in used : v <= u) + 1
    ELSE port

\* The while loop of next_port.
RECURSIVE port_scan(_, _)
port_scan(used, port) == IF port \in used THEN port_scan(used, port + 1) ELSE port

\* Registry.next_port
next_port(doc, host, base) ==
    port_scan({d.remote_port : d \in get_devices_by_host(doc, host)}, base)

\* A mutant of next_port: the port it returns is reserved in _data.
next_port_reserving(doc, host, port) ==
    [n \in DOMAIN doc \cup {""} |->
        IF n = "" THEN [host |-> host, remote_port |-> port] ELSE doc[n]]

\* Registry.next_port: _data after the call; it assigns nothing.
next_port_data(doc, host, port) == doc

\* A mutant of register's port choice: every name scans its own range, so
\* that two names never get the same port.
register_port_by_name(doc, name, host) ==
    LET existing == get_device(doc, name)
        k == CHOOSE j \in 1..Len(AllNames) : AllNames[j] = name
    IN
    IF existing # {}
    THEN (CHOOSE d \in existing : TRUE).remote_port
    ELSE next_port(doc, host, DefaultBase + 100 * k)

\* A mutant of register's port choice: the port is always allocated afresh.
register_port_fresh(doc, name, host) == next_port(doc, host, DefaultBase)

\* cli.register: the port of the record to write.
register_port(doc, name, host) ==
    LET existing == get_device(doc, name) IN
    IF existing # {}
    THEN (CHOOSE d \in existing : TRUE).remote_port
    ELSE next_port(doc, host, DefaultBase)

\* cli.register: the Device it builds.
register_device(doc, c) ==
    LET port == register_port(doc, c.name, c.host) IN
    [name |-> c.name, chip_id |-> c.chip_id, host |-> c.host,
     usb_path |-> c.usb_path, remote_port |-> port, local_port |-> port,
     description |-> c.description]

\* ------------------------------------------------------------ invocations

NoCmd ==
    [op |-> "none", name |-> "", chip_id |-> "", host |-> "", usb_path |-> "",
     description |-> "", lport |-> 0, rport |-> 0]

\* A character sequence is a Python string spelt out; the empty one is "".
NoText == <<>>

\* verify_chip_id's result before it ran.
NoDetail == [kind |-> "none", expected |-> NoText, actual |-> NoText]

\* exit: the process's exit status (-1 while it runs); raised: it ended in an
\* uncaught exception; port, existing: register's locals (existing as a
\* truth value); host, lport, rport, pid, rc, result: the arguments, locals
\* and return value of create_tunnel and kill_tunnel (pid 0 is None, rc -1 is
\* not run), result also that of remove_device; devices: what is left of
\* connect's and disconnect's loop; dev: the loop's device; connected,
\* already, failed, disconnected, notconn: the names of the devices each
\* message was printed for.
\* client: SSHConnection._client ("none": None, "made": an SSHClient that
\* is not connected, "open": a connected one); connects, closes: how often
\* the connection was established and closed; nexec: the remote commands
\* run.
\* device: detect_chip_remote's device; out, err, code: what ssh.run gave it
\* last (err: stderr holds "command not found"; code -1: nothing yet);
\* tries, installs: the discovery and install commands it has run; info: its
\* return value, Optional[ChipInfo] as a set; expected, matched, detail:
\* verify_chip_id's argument and result; enum: the devices
\* scan_devices_remote found; paths: those a loop has yet to visit; results:
\* scan_devices_remote's result list.
\* asked: the last call of next_port on the Registry object, if _data has not
\* changed since ([host, base, port, again], again: the call before it had
\* the same host and base); freed: the host and remote_port of the record
\* remove_device deleted last, if nothing was added or reloaded since.
\* encoding: the encoding of the locale the process runs in.
NoLoc ==
    [exit |-> -1, raised |-> FALSE, port |-> 0, existing |-> FALSE,
     host |-> "", lport |-> 0, rport |-> 0, pid |-> 0, rc |-> -1,
     result |-> FALSE, devices |-> {}, dev |-> "", connected |-> {},
     already |-> {}, failed |-> {}, disconnected |-> {}, notconn |-> {},
     client |-> "none", connects |-> 0, closes |-> 0, nexec |-> 0,
     device |-> "", out |-> <<>>, err |-> FALSE, code |-> -1,
     tries |-> 0, installs |-> 0, info |-> {}, expected |-> NoText,
     matched |-> FALSE, detail |-> NoDetail, enum |-> <<>>,
     paths |-> <<>>, results |-> <<>>, asked |-> {}, freed |-> {},
     encoding |-> "utf-8"]

Init ==
    /\ disk = [exists |-> FALSE, device |-> EmptyDoc]
    /\ procs = {}
    /\ pc = [i \in Inv |-> "idle"]
    /\ cmd = [i \in Inv |-> NoCmd]
    /\ data = [i \in Inv |-> EmptyDoc]
    /\ loc = [i \in Inv |-> NoLoc]

\* A new process can start in slot i.
Free(i) == pc[i] \in {"idle", "done"}

\* The process of slot i ends with this exit status.
Exit(i, l, status) ==
    /\ pc' = [pc EXCEPT ![i] = "done"]
    /\ loc' = [loc EXCEPT ![i] = [l EXCEPT !.exit = status]]

\* cli.register up to registry = Registry()
Register(i, name, chip_id, host, usb_path, description) ==
    /\ Free(i)
    /\ cmd' = [cmd EXCEPT ![i] = [NoCmd EXCEPT !.op = "register", !.name = name,
                  !.chip_id = chip_id, !.host = host, !.usb_path = usb_path,
                  !.description = description]]
    /\ data' = [data EXCEPT ![i] = load_devices(disk)]
    /\ pc' = [pc EXCEPT ![i] = "register"]
    /\ loc' = [loc EXCEPT ![i] = NoLoc]
    /\ UNCHANGED <<disk, procs>>

\* cli.register from get_device to add_device (and its save)
RegisterAdd(i) ==
    /\ pc[i] = "register"
    /\ LET device == register_device(data[i], cmd[i])
           doc == add_device(data[i], device) IN
       /\ data' = [data EXCEPT ![i] = doc]
       /\ disk' = save_devices(doc)
       /\ Exit(i, [loc[i] EXCEPT !.port = device.remote_port,
                              !.existing = get_device(data[i], cmd[i].name) # {}], 0)
    /\ UNCHANGED <<procs, cmd>>

\* cli.unregister up to registry = Registry()
Unregister(i, name) ==
    /\ Free(i)
    /\ cmd' = [cmd EXCEPT ![i] = [NoCmd EXCEPT !.op = "unregister", !.name = name]]
    /\ data' = [data EXCEPT ![i] = load_devices(disk)]
    /\ pc' = [pc EXCEPT ![i] = "unregister"]
    /\ loc' = [loc EXCEPT ![i] = NoLoc]
    /\ UNCHANGED <<disk, procs>>

\* cli.unregister: registry.remove_device(name), exit 1 when it was not there
UnregisterRemove(i) ==
    /\ pc[i] = "unregister"
    /\ IF cmd[i].name \in DOMAIN data[i]
       THEN LET doc == remove_device(data[i], cmd[i].name) IN
            /\ data' = [data EXCEPT ![i] = doc]
            /\ disk' = save_devices(doc)
            /\ Exit(i, loc[i], 0)
       ELSE /\ Exit(i, loc[i], 1)
            /\ UNCHANGED <<data, disk>>
    /\ UNCHANGED <<procs, cmd>>

\* ------------------------------------------------- registry, one at a time

\* register and unregister commands run one at a time; the records differ in
\* their host and port only.
Next ==
    \/ \E n \in Names, h \in Hosts : Register(1, n, "0xA1", h, "", "")
    \/ RegisterAdd(1)
    \/ \E n \in Names : Unregister(1, n)
    \/ UnregisterRemove(1)

Spec == Init /\ [][Next]_vars

\* The persisted document as the next invocation will load it.
Persisted == load_devices(disk)

\* The remote ports of the records of doc whose host is host.
UsedPorts(doc, host) ==
    {doc[n].remote_port : n \in {m \in DOMAIN doc : doc[m].host = host}}

\* The records of doc whose host is host.
OnHost(doc, host) ==
    [n \in {m \in DOMAIN doc : doc[m].host = host} |-> doc[n]]

\* C1: after any sequence of register and unregister commands run one at a
\* time from an empty registry, no two records with the same host have the
\* same remote_port.
C1_UniquePortPerHost ==
    Free(1) =>
        \A d1, d2 \in list_devices(Persisted) :
            (d1.name # d2.name /\ d1.host = d2.host)
                => d1.remote_port # d2.remote_port

\* C2: for every registry state, host and base, next_port returns the
\* smallest port >= base that no record of that host uses; the records of
\* other hosts do not change the result.
C2_NextPortSmallestFree ==
    \A h \in Hosts, b \in Bases :
        LET p == next_port(Persisted, h, b) IN
        /\ p >= b
        /\ p \notin UsedPorts(Persisted, h)
        /\ \A q \in b..(p - 1) : q \in UsedPorts(Persisted, h)
        /\ p = next_port(OnHost(Persisted, h), h, b)

\* C2's case: a register of a new name has just been given the free port
\* below a higher used port of the same host.
C2_Witness ==
    /\ pc[1] = "done"
    /\ cmd[1].op = "register"
    /\ ~loc[1].existing
    /\ loc[1].port = DefaultBase + 1
    /\ DefaultBase + 2 \in UsedPorts(Persisted, cmd[1].host)

\* ------------------------------------------- registry, every field varies

\* register and unregister commands run one at a time, over few names, with
\* every option of register varying.
NextFields ==
    \/ \E n \in FewNames, c \in ChipIds, h \in Hosts, u \in UsbPaths,
          d \in Descriptions : Register(1, n, c, h, u, d)
    \/ RegisterAdd(1)
    \/ \E n \in FewNames : Unregister(1, n)
    \/ UnregisterRemove(1)

SpecFields == Init /\ [][NextFields]_vars

\* The step in which invocation i, registering a name the persisted document
\* holds, writes the document.
ReRegisterStep(i) ==
    /\ pc[i] = "register"
    /\ pc'[i] = "done"
    /\ get_device(Persisted, cmd[i].name) # {}

OldRecord(i) == CHOOSE d \in get_device(Persisted, cmd[i].name) : TRUE
NewRecord(i) == CHOOSE d \in get_device(load_devices(disk'), cmd[i].name) : TRUE

C4_ReRegisterKeepsFields ==
    [][\A i \in Inv :
        (ReRegisterStep(i) /\ cmd[i].usb_path = "" /\ cmd[i].description = "") =>
            /\ NewRecord(i).usb_path = OldRecord(i).usb_path
            /\ NewRecord(i).description = OldRecord(i).description]_vars

\* ------------------------------------------------ registry, overlapping

\* register and unregister invocations that overlap, for devices of one
\* host: each loads its snapshot when it builds its Registry and writes when
\* it mutates.
NextConc ==
    \E i \in Inv :
        \/ \E n \in FewNames : Register(i, n, "0xA1", "pi@h1", "", "")
        \/ RegisterAdd(i)
        \/ \E n \in FewNames : Unregister(i, n)
        \/ UnregisterRemove(i)

SpecConc == Init /\ [][NextConc]_vars

\* The step in which invocation i rewrites the persisted document: add_device,
\* or remove_device of a name its snapshot holds.
WriteStep(i) ==
    /\ pc[i] \in {"register", "unregister"}
    /\ pc'[i] = "done"
    /\ (cmd[i].op = "register" \/ cmd[i].name \in DOMAIN data[i])

\* doc's records other than name are all in the document written.
KeptExcept(doc, name) ==
    \A n \in DOMAIN doc \ {name} :
        /\ n \in DOMAIN load_devices(disk')
        /\ load_devices(disk')[n] = doc[n]

\* C5 as stated: the document written by a mutation contains every record
\* that was in the persisted document immediately before the write, except
\* the one replaced or removed.
C5_WriteKeepsPersisted ==
    [][\A i \in Inv : WriteStep(i) => KeptExcept(Persisted, cmd[i].name)]_vars

\* C5 as amended: the document written by a mutation contains every record of
\* the snapshot its invocation loaded when it built its Registry, except the
\* one replaced or removed; when nothing was written since that load, these
\* are the records of the persisted document immediately before the write.
C5_WriteKeepsSnapshot ==
    [][\A i \in Inv :
        WriteStep(i) =>
            /\ KeptExcept(data[i], cmd[i].name)
            /\ (data[i] = Persisted => KeptExcept(Persisted, cmd[i].name))]_vars

\* C5's case: one invocation has written a document of two records while
\* another, which loaded its snapshot before that write, is about to write.
C5_Witness ==
    \E i, j \in Inv :
        /\ i # j
        /\ pc[i] = "done"
        /\ cmd[i].op = "register"
        /\ Persisted = data[i]
        /\ Cardinality(DOMAIN Persisted) = 2
        /\ pc[j] = "register"
        /\ data[j] # Persisted
        /\ DOMAIN data[j] # {}

\* ------------------------------------------------------------- tunnels

\* The local ports tunnels are asked for: two neighbours, and one whose
\* decimal text starts with the digits of the first.
TunnelPorts == {DefaultBase, DefaultBase + 1, DefaultBase * 10 + 1}

\* str(n) as its decimal digits.
RECURSIVE Str(_)
Str(n) == IF n < 10 THEN <<n>> ELSE Append(Str(n \div 10), n % 10)

\* s is the beginning of t.
StartsWith(t, s) == Len(s) <= Len(t) /\ SubSeq(t, 1, Len(s)) = s

\* A mutant of pgrep_matches: the port is compared as a whole.
pgrep_matches_exact(port, p) == p.lport = port

\* pgrep -f "ssh.*-L {port}" against the command line
\* "ssh -f -N -L {lport}:127.0.0.1:{rport} ...": the pattern is not anchored
\* after the port, so it matches when lport's text starts with port's.
pgrep_matches(port, p) == StartsWith(Str(p.lport), Str(port))

\* find_tunnel_pid: the first line of pgrep's output (it lists the matching
\* processes by ascending pid), None (0) when nothing matches.
find_tunnel_pid(ps, port) ==
    LET found == {p.pid : p \in {q \in ps : pgrep_matches(port, q)}} IN
    IF found = {} THEN 0
    ELSE CHOOSE x \in found : \A y \in found : x <= y

\* is_port_open: a connect to 127.0.0.1:port succeeds when a forwarding
\* process listens there (ExitOnForwardFailure=yes: a live one does).
is_port_open(ps, port) == \E p \in ps : p.lport = port

\* A mutant of create_tunnel_result: a launched tunnel counts as open.
create_tunnel_result_unprobed(ps, port) == TRUE

\* create_tunnel's return value after a successful launch.
create_tunnel_result(ps, port) == is_port_open(ps, port)

\* os.kill(pid, SIGTERM) on a live process.
sigterm(ps, pid) ==
    {IF p.pid = pid THEN [p EXCEPT !.sig = TRUE] ELSE p : p \in ps}

CtPcs == {"ct_find", "ct_kill", "ct_launch", "ct_probe"}
KtPcs == {"kt_find", "kt_kill"}

\* An uncaught exception ends the process with a traceback and status 1.
Raise(i) == Exit(i, [loc[i] EXCEPT !.raised = TRUE], 1)

\* create_tunnel or kill_tunnel returns r to its caller: the loop of connect
\* or disconnect, which prints its message, or the program that called it.
Return(i, l, r) ==
    LET lr == [l EXCEPT !.result = r] IN
    CASE cmd[i].op = "connect" ->
            /\ pc' = [pc EXCEPT ![i] = "connect_loop"]
            /\ loc' = [loc EXCEPT ![i] =
                 IF r THEN [lr EXCEPT !.connected = @ \cup {l.dev}]
                      ELSE [lr EXCEPT !.failed = @ \cup {l.dev}]]
      [] cmd[i].op = "disconnect" ->
            /\ pc' = [pc EXCEPT ![i] = "disconnect_loop"]
            /\ loc' = [loc EXCEPT ![i] =
                 IF r THEN [lr EXCEPT !.disconnected = @ \cup {l.dev}]
                      ELSE [lr EXCEPT !.notconn = @ \cup {l.dev}]]
      [] OTHER -> Exit(i, lr, 0)

\* A program calls create_tunnel(host, local_port, remote_port).
CreateTunnel(i, host, lport, rport) ==
    /\ Free(i)
    /\ cmd' = [cmd EXCEPT ![i] = [NoCmd EXCEPT !.op = "create", !.host = host,
                  !.lport = lport, !.rport = rport]]
    /\ loc' = [loc EXCEPT ![i] = [NoLoc EXCEPT !.host = host, !.lport = lport,
                  !.rport = rport]]
    /\ pc' = [pc EXCEPT ![i] = "ct_find"]
    /\ UNCHANGED <<disk, procs, data>>

\* create_tunnel: pid = find_tunnel_pid(local_port)
CtFind(i) ==
    /\ pc[i] = "ct_find"
    /\ LET pid == find_tunnel_pid(procs, loc[i].lport) IN
       /\ loc' = [loc EXCEPT ![i].pid = pid]
       /\ pc' = [pc EXCEPT ![i] = IF pid # 0 THEN "ct_kill" ELSE "ct_launch"]
    /\ UNCHANGED <<disk, procs, cmd, data>>

\* create_tunnel: os.kill(pid, SIGTERM), then the sleep; ProcessLookupError
\* when the process is gone.
CtKill(i) ==
    /\ pc[i] = "ct_kill"
    /\ IF \E p \in procs : p.pid = loc[i].pid
       THEN /\ procs' = sigterm(procs, loc[i].pid)
            /\ pc' = [pc EXCEPT ![i] = "ct_launch"]
            /\ UNCHANGED loc
       ELSE /\ Raise(i)
            /\ UNCHANGED procs
    /\ UNCHANGED <<disk, cmd, data>>

\* create_tunnel: subprocess.run(ssh -f -N -L ...) exits non-zero, and
\* create_tunnel returns False.
CtLaunchFail(i) ==
    /\ pc[i] = "ct_launch"
    /\ Return(i, [loc[i] EXCEPT !.rc = 1], FALSE)
    /\ UNCHANGED <<disk, procs, cmd, data>>

\* create_tunnel: subprocess.run cannot start ssh (no such program, no
\* process left) and raises OSError, which nothing catches.
CtSpawnError(i) ==
    /\ pc[i] = "ct_launch"
    /\ Raise(i)
    /\ UNCHANGED <<disk, procs, cmd, data>>

\* create_tunnel: ssh binds the local port, goes to the background and exits
\* 0; it cannot bind a port another process listens on.
CtLaunchOk(i) ==
    /\ pc[i] = "ct_launch"
    /\ ~is_port_open(procs, loc[i].lport)
    /\ \E pid \in Pids \ {p.pid : p \in procs} :
         procs' = procs \cup {[pid |-> pid, lport |-> loc[i].lport,
                               host |-> loc[i].host, rport |-> loc[i].rport,
                               sig |-> FALSE]}
    /\ loc' = [loc EXCEPT ![i].rc = 0]
    /\ pc' = [pc EXCEPT ![i] = "ct_probe"]
    /\ UNCHANGED <<disk, cmd, data>>

\* create_tunnel: after the sleep, return is_port_open(local_port)
CtProbe(i) ==
    /\ pc[i] = "ct_probe"
    /\ Return(i, loc[i], create_tunnel_result(procs, loc[i].lport))
    /\ UNCHANGED <<disk, procs, cmd, data>>

\* A program calls kill_tunnel(port).
KillTunnel(i, port) ==
    /\ Free(i)
    /\ cmd' = [cmd EXCEPT ![i] = [NoCmd EXCEPT !.op = "kill", !.lport = port]]
    /\ loc' = [loc EXCEPT ![i] = [NoLoc EXCEPT !.lport = port]]
    /\ pc' = [pc EXCEPT ![i] = "kt_find"]
    /\ UNCHANGED <<disk, procs, data>>

\* kill_tunnel: pid = find_tunnel_pid(port); return False when there is none
KtFind(i) ==
    /\ pc[i] = "kt_find"
    /\ LET pid == find_tunnel_pid(procs, loc[i].lport) IN
       IF pid # 0
       THEN /\ loc' = [loc EXCEPT ![i].pid = pid]
            /\ pc' = [pc EXCEPT ![i] = "kt_kill"]
       ELSE Return(i, [loc[i] EXCEPT !.pid = 0], FALSE)
    /\ UNCHANGED <<disk, procs, cmd, data>>

\* kill_tunnel: os.kill(pid, SIGTERM); return True
KtKill(i) ==
    /\ pc[i] = "kt_kill"
    /\ IF \E p \in procs : p.pid = loc[i].pid
       THEN /\ procs' = sigterm(procs, loc[i].pid)
            /\ Return(i, loc[i], TRUE)
       ELSE /\ Raise(i)
            /\ UNCHANGED procs
    /\ UNCHANGED <<disk, cmd, data>>

\* A forwarding process exits: it was signaled, or its connection dropped.
ProcExit(p) ==
    /\ p \in procs
    /\ procs' = procs \ {p}
    /\ UNCHANGED <<disk, pc, cmd, data, loc>>

\* create_tunnel and kill_tunnel called one at a time, while forwarding
\* processes may exit.
NextTunnel ==
    \/ \E h \in Hosts, p \in TunnelPorts : CreateTunnel(1, h, p, DefaultBase)
    \/ CtFind(1)
    \/ CtKill(1)
    \/ CtLaunchFail(1)
    \/ CtSpawnError(1)
    \/ CtLaunchOk(1)
    \/ CtProbe(1)
    \/ \E p \in TunnelPorts : KillTunnel(1, p)
    \/ KtFind(1)
    \/ KtKill(1)
    \/ \E p \in procs : ProcExit(p)

SpecTunnel == Init /\ [][NextTunnel]_vars

\* The forwarding processes bound to local port port.
BoundTo(ps, port) == {p \in ps : p.lport = port}

\* The step in which create_tunnel of invocation i returns a value.
CtReturnStep(i) ==
    /\ pc[i] \in CtPcs
    /\ pc'[i] \notin CtPcs
    /\ ~loc'[i].raised

\* C6: create returns success only if ssh was launched with exit status 0 and
\* the following probe of the local port succeeded; when the launch or the
\* probe fails it returns failure; the port is open in the state in which a
\* successful create returns.
C6_CreateSuccessIffProbed ==
    [][\A i \in Inv :
        CtReturnStep(i) =>
            /\ loc'[i].result <=>
                 (/\ pc[i] = "ct_probe"
                  /\ loc[i].rc = 0
                  /\ is_port_open(procs, loc[i].lport))
            /\ loc'[i].result =>
                 (loc'[i].rc = 0 /\ is_port_open(procs', loc[i].lport))]_vars

\* C6's case: a create has returned success and the port is open.
C6_Witness ==
    /\ pc[1] = "done"
    /\ cmd[1].op = "create"
    /\ loc[1].result
    /\ loc[1].rc = 0
    /\ is_port_open(procs, cmd[1].lport)

\* C7: a forwarding process associated with localPort is signaled before
\* create launches the new one, and at most one live forwarding process is
\* bound to a local port.
C7_CreateSignalsOldFirst ==
    /\ \A i \in Inv :
         pc[i] = "ct_launch" =>
            \A p \in BoundTo(procs, loc[i].lport) : p.sig
    /\ \A p, q \in procs : p.lport = q.lport => p = q

\* The step taken by invocation i.
StepOf(i) == pc'[i] # pc[i]

\* C8: kill(localPort) returns true exactly when a forwarding process for
\* localPort was found and sent SIGTERM; when there is none it returns false,
\* signals no process and raises no error.
C8_KillTrueIffOwnSignaled ==
    [][\A i \in Inv :
        /\ (pc[i] = "kt_find" /\ StepOf(i) /\ BoundTo(procs, loc[i].lport) = {}) =>
              /\ pc'[i] = "done"
              /\ ~loc'[i].result
              /\ ~loc'[i].raised
              /\ procs' = procs
        /\ (pc[i] \in KtPcs /\ pc'[i] = "done" /\ ~loc'[i].raised) =>
              (loc'[i].result <=>
                 \E p \in BoundTo(procs, loc[i].lport) :
                    /\ p.pid = loc'[i].pid
                    /\ [p EXCEPT !.sig = TRUE] \in procs')]_vars

\* The process with this pid, which was sent SIGTERM, exits.
SignaledExit(pid) == \E p \in procs : p.pid = pid /\ p.sig /\ ProcExit(p)

\* A call that has started takes its next step: the code is synchronous and
\* each of its waits is bounded.
CallStep ==
    \/ CtFind(1) \/ CtKill(1) \/ CtLaunchFail(1) \/ CtSpawnError(1)
    \/ CtLaunchOk(1) \/ CtProbe(1)
    \/ KtFind(1) \/ KtKill(1)

\* As SpecTunnel, where a started call runs to its end and every process that
\* was sent SIGTERM eventually exits.
SpecTunnelFair ==
    /\ SpecTunnel
    /\ WF_vars(CallStep)
    /\ \A pid \in Pids : WF_vars(SignaledExit(pid))

\* C9: after kill(p) has signaled a process, given that a signaled process
\* eventually exits, is_port_open(p) is eventually false.  (A new tunnel on
\* p can only be launched once the port is closed.)
C9_KillThenClosed ==
    \A port \in TunnelPorts :
        (\E i \in Inv : /\ pc[i] = "done"
                        /\ cmd[i].op = "kill"
                        /\ cmd[i].lport = port
                        /\ loc[i].result)
            ~> ~is_port_open(procs, port)

\* ------------------------------------------------- connect and disconnect

\* cli.connect and cli.disconnect up to the loop: the Registry is built, a
\* named device is looked up (exit 1 when it is not found), and without a
\* name every device is taken; connect returns when there is none.
StartLoop(i, op, name) ==
    /\ Free(i)
    /\ cmd' = [cmd EXCEPT ![i] = [NoCmd EXCEPT !.op = op, !.name = name]]
    /\ data' = [data EXCEPT ![i] = load_devices(disk)]
    /\ LET doc == load_devices(disk)
           devices == IF name # "" THEN get_device(doc, name) ELSE list_devices(doc) IN
       IF name # "" /\ devices = {}
       THEN Exit(i, NoLoc, 1)
       ELSE IF op = "connect" /\ devices = {}
            THEN Exit(i, NoLoc, 0)
            ELSE /\ loc' = [loc EXCEPT ![i] = [NoLoc EXCEPT !.devices = devices]]
                 /\ pc' = [pc EXCEPT ![i] = op \o "_loop"]
    /\ UNCHANGED <<disk, procs>>

\* cli.connect, device is "" when the argument is left out
Connect(i, device) == StartLoop(i, "connect", device)

\* cli.disconnect
Disconnect(i, device) == StartLoop(i, "disconnect", device)

\* cli.connect: the loop's next device, up to its call of create_tunnel; the
\* command ends after the last one (the devices are taken in any order).
ConnectNext(i) ==
    /\ pc[i] = "connect_loop"
    /\ IF loc[i].devices = {}
       THEN Exit(i, loc[i], 0)
       ELSE \E dev \in loc[i].devices :
              LET l == [loc[i] EXCEPT !.devices = @ \ {dev}, !.dev = dev.name] IN
              IF is_port_open(procs, dev.local_port)
              THEN /\ loc' = [loc EXCEPT ![i] = [l EXCEPT !.already = @ \cup {dev.name}]]
                   /\ UNCHANGED pc
              ELSE /\ loc' = [loc EXCEPT ![i] = [l EXCEPT !.host = dev.host,
                                !.lport = dev.local_port, !.rport = dev.remote_port,
                                !.pid = 0, !.rc = -1, !.result = FALSE]]
                   /\ pc' = [pc EXCEPT ![i] = "ct_find"]
    /\ UNCHANGED <<disk, procs, cmd, data>>

\* cli.disconnect: the loop's next device, up to its call of kill_tunnel
DisconnectNext(i) ==
    /\ pc[i] = "disconnect_loop"
    /\ IF loc[i].devices = {}
       THEN Exit(i, loc[i], 0)
       ELSE \E dev \in loc[i].devices :
              /\ loc' = [loc EXCEPT ![i] = [loc[i] EXCEPT !.devices = @ \ {dev},
                            !.dev = dev.name, !.lport = dev.local_port,
                            !.pid = 0, !.result = FALSE]]
              /\ pc' = [pc EXCEPT ![i] = "kt_find"]
    /\ UNCHANGED <<disk, procs, cmd, data>>

\* register, connect and disconnect commands run one at a time, while
\* forwarding processes may exit; a tunnel outside the registry's ports can
\* be made by a call of create_tunnel.
NextCli ==
    \/ \E n \in FewNames, h \in Hosts : Register(1, n, "0xA1", h, "", "")
    \/ RegisterAdd(1)
    \/ CreateTunnel(1, "pi@h1", DefaultBase * 10 + 1, DefaultBase)
    \/ \E n \in FewNames \cup {""} : Connect(1, n)
    \/ ConnectNext(1)
    \/ CtFind(1)
    \/ CtKill(1)
    \/ CtLaunchFail(1)
    \/ CtLaunchOk(1)
    \/ CtProbe(1)
    \/ \E n \in FewNames \cup {""} : Disconnect(1, n)
    \/ DisconnectNext(1)
    \/ KtFind(1)
    \/ KtKill(1)
    \/ \E p \in procs : ProcExit(p)

SpecCli == Init /\ [][NextCli]_vars

\* C10: a command in which an operation fails ends with a non-zero exit
\* status; a connect in which create_tunnel failed for a device exits
\* non-zero.
C10_ConnectFailureExitsNonZero ==
    \A i \in Inv :
        (pc[i] = "done" /\ cmd[i].op = "connect" /\ loc[i].failed # {})
            => loc[i].exit # 0

\* C11: create and kill always finish by returning a boolean: no error of
\* the process level reaches the caller, also when the process found has
\* exited before the signal is sent or when ssh cannot be spawned.
C11_TunnelCallsNeverRaise ==
    \A i \in Inv :
        (pc[i] = "done" /\ cmd[i].op \in {"create", "kill"}) => ~loc[i].raised

\* ---------------------------------------------------------- chip detection

\* One line of a remote command's output, by what detect_chip_remote looks
\* for in it: has_chip, has_id, has_mac say that the line contains "Chip is"
\* or "Chip type:", "Chip ID:", "MAC:"; chip, id, mac are the group the
\* branch's regular expression captures in the line (NoText: no match);
\* missing says that the line contains "command not found" or "No such
\* file".
Line(has_chip, chip, has_id, id, has_mac, mac, missing) ==
    [has_chip |-> has_chip, chip |-> chip, has_id |-> has_id, id |-> id,
     has_mac |-> has_mac, mac |-> mac, missing |-> missing]

IdUpper == <<"0", "x", "A">>
IdLower == <<"0", "x", "a">>
MacUpper == <<"B", ":", "C">>
MacLower == <<"b", ":", "c">>
MacOther == <<"d", ":", "e">>
ChipName == <<"E", "S", "P">>

\* "Chip is ESP"
LChip == Line(TRUE, ChipName, FALSE, NoText, FALSE, NoText, FALSE)
\* "Chip ID: 0xA"
LId == Line(FALSE, NoText, TRUE, IdUpper, FALSE, NoText, FALSE)
\* "Chip ID: unknown"
LIdBad == Line(FALSE, NoText, TRUE, NoText, FALSE, NoText, FALSE)
\* "MAC: B:C"
LMac == Line(FALSE, NoText, FALSE, NoText, TRUE, MacUpper, FALSE)
\* "MAC: d:e"
LMacOther == Line(FALSE, NoText, FALSE, NoText, TRUE, MacOther, FALSE)
\* "Chip is ESP (MAC: B:C)"
LChipMac == Line(TRUE, ChipName, FALSE, NoText, TRUE, MacUpper, FALSE)
\* "bash: esptool: command not found"
LMissing == Line(FALSE, NoText, FALSE, NoText, FALSE, NoText, TRUE)
\* "Connecting...."
LOther == Line(FALSE, NoText, FALSE, NoText, FALSE, NoText, FALSE)

DetectLines ==
    {LChip, LId, LIdBad, LMac, LMacOther, LChipMac, LMissing, LOther}

Outputs == UNION {[1..n -> DetectLines] : n \in 0..MaxLines}

\* The outputs of at most one line.
ShortOutputs == {out \in Outputs : Len(out) <= 1}

DevicePaths == {"/dev/ttyUSB0", "/dev/ttyUSB1"}

\* detect_chip_remote: esptool looks missing to it.
esptool_missing_always(out, err) == TRUE

esptool_missing(out, err) ==
    err \/ \E k \in 1..Len(out) : out[k].missing

\* A mutant of the parse loop: every MAC line is taken, the last one stays.
parse_line_last_mac(st, line) ==
    IF line.has_chip
    THEN IF line.chip # NoText THEN [st EXCEPT !.chip_type = line.chip] ELSE st
    ELSE IF line.has_id
    THEN IF line.id # NoText THEN [st EXCEPT !.chip_id = line.id] ELSE st
    ELSE IF line.has_mac
    THEN IF line.mac # NoText THEN [st EXCEPT !.mac = line.mac] ELSE st
    ELSE st

\* detect_chip_remote: one turn of the parse loop.
parse_line(st, line) ==
    IF line.has_chip
    THEN IF line.chip # NoText THEN [st EXCEPT !.chip_type = line.chip] ELSE st
    ELSE IF line.has_id
    THEN IF line.id # NoText THEN [st EXCEPT !.chip_id = line.id] ELSE st
    ELSE IF line.has_mac /\ st.mac = NoText
    THEN IF line.mac # NoText THEN [st EXCEPT !.mac = line.mac] ELSE st
    ELSE st

RECURSIVE parse_lines(_, _, _)
parse_lines(st, out, k) ==
    IF k > Len(out) THEN st ELSE parse_lines(parse_line(st, out[k]), out, k + 1)

\* detect_chip_remote: chip_type, chip_id and mac after the parse loop.
parse_output(out) ==
    parse_lines([chip_type |-> NoText, chip_id |-> NoText, mac |-> NoText],
                out, 1)

\* detect_chip_remote: what it tests before it returns a ChipInfo.
chip_found_any(st) ==
    st.chip_id # NoText \/ st.mac # NoText \/ st.chip_type # NoText

chip_found(st) == st.chip_id # NoText \/ st.mac # NoText

\* detect_chip_remote: its return value from the last exit code and output.
detect_result(out, code, device) ==
    IF code # 0 THEN {}
    ELSE LET st == parse_output(out) IN
         IF chip_found(st)
         THEN {[chip_type |-> st.chip_type, chip_id |-> st.chip_id,
                mac |-> st.mac, device |-> device]}
         ELSE {}

\* str.lower on one character.
LowerChar(c) ==
    CASE c = "A" -> "a"
      [] c = "B" -> "b"
      [] c = "C" -> "c"
      [] c = "E" -> "e"
      [] c = "S" -> "s"
      [] c = "P" -> "p"
      [] OTHER -> c

\* verify_chip_id: a comparison that keeps the case.
lower_kept(s) == s

lower(s) == [k \in 1..Len(s) |-> LowerChar(s[k])]

\* verify_chip_id: its return value from detect_chip_remote's.
verify_result(info, expected) ==
    IF info = {}
    THEN [matched |-> FALSE,
          detail |-> [kind |-> "unreadable", expected |-> NoText,
                      actual |-> NoText]]
    ELSE LET chip_info == CHOOSE c \in info : TRUE
             actual_id == IF chip_info.chip_id # NoText THEN chip_info.chip_id
                          ELSE chip_info.mac
         IN
         IF actual_id = NoText
         THEN [matched |-> FALSE,
               detail |-> [kind |-> "no_id", expected |-> NoText,
                           actual |-> NoText]]
         ELSE IF lower(actual_id) = lower(expected)
         THEN [matched |-> TRUE,
               detail |-> [kind |-> "verified", expected |-> NoText,
                           actual |-> actual_id]]
         ELSE IF chip_info.chip_id # NoText
                 /\ lower(chip_info.chip_id) = lower(expected)
         THEN [matched |-> TRUE,
               detail |-> [kind |-> "chip_id_verified", expected |-> NoText,
                           actual |-> chip_info.chip_id]]
         ELSE IF chip_info.mac # NoText
                 /\ lower(chip_info.mac) = lower(expected)
         THEN [matched |-> TRUE,
               detail |-> [kind |-> "mac_verified", expected |-> NoText,
                           actual |-> chip_info.mac]]
         ELSE [matched |-> FALSE,
               detail |-> [kind |-> "mismatch", expected |-> expected,
                           actual |-> actual_id]]

\* ------------------------------------------------------------ connection

\* SSHConnection.connect when the host answers.
ssh_connect(l) == [l EXCEPT !.client = "open", !.connects = @ + 1]

\* SSHConnection.connect when paramiko's connect raises.
ssh_connect_failed(l) == [l EXCEPT !.client = "made"]

\* SSHConnection.close that forgets to close.
ssh_close_never(l) == l

\* SSHConnection.close
ssh_close(l) ==
    IF l.client # "none"
    THEN [l EXCEPT !.client = "none", !.closes = @ + 1]
    ELSE l

\* SSHConnection.run up to exec_command: the command reaches the host.
ssh_run_started(l) == [l EXCEPT !.nexec = @ + 1]

\* The positions in which the next step is a call of ssh.run.
RunPcs == {"dc_run", "dc_install", "dc_retry", "sc_ls", "sc_usb"}

\* scan_devices_remote: the devices left after one turn of its loop, in a
\* loop that gives up at the first device without an identity.
scan_rest_until_none(paths, info) == IF info = {} THEN <<>> ELSE Tail(paths)

scan_rest(paths, info) == Tail(paths)

\* detect_chip_remote from its last ssh.run on, and the caller's use of what
\* it returns: the program that called it, verify_chip_id (and with it
\* cli.verify, which leaves its with block and exits 1 unless it matched),
\* or the loop of scan_devices_remote.
DcFinish(i, l) ==
    LET info == detect_result(l.out, l.code, l.device)
        li == [l EXCEPT !.info = info]
    IN
    CASE cmd[i].op = "detect" ->
            /\ pc' = [pc EXCEPT ![i] = "done"]
            /\ loc' = [loc EXCEPT ![i] = li]
      [] cmd[i].op = "verify_chip" ->
            LET v == verify_result(info, l.expected) IN
            /\ pc' = [pc EXCEPT ![i] = "done"]
            /\ loc' = [loc EXCEPT ![i] =
                 [li EXCEPT !.matched = v.matched, !.detail = v.detail]]
      [] cmd[i].op = "verify" ->
            LET v == verify_result(info, l.expected) IN
            Exit(i, [ssh_close(li) EXCEPT !.matched = v.matched,
                                          !.detail = v.detail],
                 IF v.matched THEN 0 ELSE 1)
      [] cmd[i].op = "scan" ->
            LET results == Append(l.results,
                                  [device |-> l.device, info |-> info])
                rest == scan_rest(l.paths, info)
            IN
            IF rest # <<>>
            THEN /\ pc' = [pc EXCEPT ![i] = "dc_run"]
                 /\ loc' = [loc EXCEPT ![i] =
                      [li EXCEPT !.results = results, !.paths = rest,
                                 !.device = Head(rest), !.tries = 0,
                                 !.installs = 0]]
            ELSE /\ pc' = [pc EXCEPT ![i] = "sc_usb"]
                 /\ loc' = [loc EXCEPT ![i] =
                      [li EXCEPT !.results = results,
                                 !.paths = [k \in 1..Len(results) |->
                                              results[k].device]]]

\* A program calls detect_chip_remote with a connection of its own.
DetectChip(i, device, client) ==
    /\ Free(i)
    /\ cmd' = [cmd EXCEPT ![i] = [NoCmd EXCEPT !.op = "detect"]]
    /\ loc' = [loc EXCEPT ![i] =
         [NoLoc EXCEPT !.device = device, !.client = client]]
    /\ pc' = [pc EXCEPT ![i] = "dc_run"]
    /\ UNCHANGED <<disk, procs, data>>

\* A program calls verify_chip_id with a connection of its own.
VerifyChip(i, device, expected, client) ==
    /\ Free(i)
    /\ cmd' = [cmd EXCEPT ![i] = [NoCmd EXCEPT !.op = "verify_chip"]]
    /\ loc' = [loc EXCEPT ![i] =
         [NoLoc EXCEPT !.device = device, !.expected = expected,
                       !.client = client]]
    /\ pc' = [pc EXCEPT ![i] = "dc_run"]
    /\ UNCHANGED <<disk, procs, data>>

\* detect_chip_remote: the first esptool command and what follows it.
DcRun(i, outs) ==
    /\ pc[i] = "dc_run"
    /\ loc[i].client = "open"
    /\ \E out \in outs, err \in BOOLEAN, code \in {0, 1} :
        LET l == [ssh_run_started(loc[i]) EXCEPT
                     !.out = out, !.err = err, !.code = code,
                     !.tries = @ + 1]
        IN
        IF code # 0 /\ esptool_missing(out, err)
        THEN /\ pc' = [pc EXCEPT ![i] = "dc_install"]
             /\ loc' = [loc EXCEPT ![i] = l]
        ELSE DcFinish(i, l)
    /\ UNCHANGED <<disk, procs, cmd, data>>

\* detect_chip_remote: pip install esptool, whose result it does not read.
DcInstall(i) ==
    /\ pc[i] = "dc_install"
    /\ loc[i].client = "open"
    /\ pc' = [pc EXCEPT ![i] = "dc_retry"]
    /\ loc' = [loc EXCEPT ![i] =
         [ssh_run_started(loc[i]) EXCEPT !.installs = @ + 1]]
    /\ UNCHANGED <<disk, procs, cmd, data>>

\* detect_chip_remote: the esptool command after the install.
DcRetry(i, outs) ==
    /\ pc[i] = "dc_retry"
    /\ loc[i].client = "open"
    /\ \E out \in outs, err \in BOOLEAN, code \in {0, 1} :
        DcFinish(i, [ssh_run_started(loc[i]) EXCEPT
                        !.out = out, !.err = err, !.code = code,
                        !.tries = @ + 1])
    /\ UNCHANGED <<disk, procs, cmd, data>>

\* ssh.run raises: RuntimeError without a client, paramiko's error when the
\* client is not connected or the session is lost. cli.scan and cli.verify
\* leave their with block, which closes the connection, and exit 1 in their
\* except branch; a program that called the function gets the exception.
RunError(i) ==
    /\ pc[i] \in RunPcs
    /\ IF cmd[i].op \in {"scan", "verify"}
       THEN Exit(i, ssh_close(loc[i]), 1)
       ELSE Raise(i)
    /\ UNCHANGED <<disk, procs, cmd, data>>

ExpectedIds == {NoText, IdUpper, IdLower, MacLower, MacOther}

NextDetect ==
    \/ \E d \in DevicePaths, c \in {"none", "open"} : DetectChip(1, d, c)
    \/ \E d \in DevicePaths, e \in ExpectedIds : VerifyChip(1, d, e, "open")
    \/ DcRun(1, Outputs)
    \/ DcInstall(1)
    \/ DcRetry(1, ShortOutputs)
    \/ RunError(1)

SpecDetect == Init /\ [][NextDetect]_vars

\* C12: in one call of detect_chip_remote the esptool command runs at most
\* twice and the install at most once; the install and the second run come
\* only after a first run that exited non-zero with the missing-command
\* marker in its output, the second run after the install; a call whose last
\* run exited non-zero returns None.
C12_DiscoverRunsBounded ==
    [][\A i \in Inv :
        LET marked == loc[i].err
                      \/ \E k \in 1..Len(loc[i].out) : loc[i].out[k].missing
        IN
        /\ loc'[i].tries <= 2
        /\ loc'[i].installs <= 1
        /\ loc'[i].installs = loc[i].installs + 1
             => loc[i].tries = 1 /\ loc[i].code # 0 /\ marked
        /\ (loc[i].tries = 1 /\ loc'[i].tries = 2)
             => loc[i].installs = 1 /\ loc[i].code # 0 /\ marked
        /\ (pc[i] \in {"dc_run", "dc_retry"} /\ pc'[i] = "done"
            /\ ~loc'[i].raised /\ loc'[i].code # 0)
             => loc'[i].info = {}
      ]_vars

C12_Witness ==
    /\ pc[1] = "done" /\ cmd[1].op = "detect" /\ ~loc[1].raised
    /\ loc[1].tries = 2 /\ loc[1].installs = 1
    /\ loc[1].code # 0 /\ loc[1].info = {}

\* C13: detect_chip_remote returns a ChipInfo exactly when its last run
\* exited 0 and a chip_id or a mac was extracted from the output; a chip_type
\* alone gives None; a ChipInfo returned has a non-empty chip_id or mac and
\* the device that was probed.
C13_IdentityIffIdOrMac ==
    \A i \in Inv :
        (pc[i] = "done" /\ cmd[i].op = "detect" /\ ~loc[i].raised) =>
            LET out == loc[i].out
                id_line == \E k \in 1..Len(out) :
                    ~out[k].has_chip /\ out[k].has_id /\ out[k].id # NoText
                mac_line == \E k \in 1..Len(out) :
                    /\ ~out[k].has_chip /\ ~out[k].has_id
                    /\ out[k].has_mac /\ out[k].mac # NoText
            IN
            /\ loc[i].info # {} <=> (loc[i].code = 0 /\ (id_line \/ mac_line))
            /\ \A c \in loc[i].info :
                /\ c.chip_id # NoText \/ c.mac # NoText
                /\ c.device = loc[i].device

C13_Witness ==
    /\ pc[1] = "done" /\ cmd[1].op = "detect" /\ ~loc[1].raised
    /\ \E c \in loc[1].info :
        c.chip_id = NoText /\ c.mac = MacOther /\ c.chip_type = ChipName

\* The letters that differ in case only.
CasePairs ==
    {{"a", "A"}, {"b", "B"}, {"c", "C"}, {"d", "D"}, {"e", "E"},
     {"p", "P"}, {"s", "S"}, {"x", "X"}}

SameIgnoringCase(s, t) ==
    /\ Len(s) = Len(t)
    /\ \A k \in 1..Len(s) : s[k] = t[k] \/ {s[k], t[k]} \in CasePairs

\* C14: verify_chip_id says matched exactly when the expected value equals,
\* letter case aside, the non-empty chip_id or the non-empty mac of the
\* ChipInfo; if not, and there is a ChipInfo, its detail names the expected
\* value and the chip_id, or the mac when there is no chip_id; without a
\* ChipInfo it says not matched.
C14_VerifyMatchesIdOrMac ==
    \A i \in Inv :
        (pc[i] = "done" /\ cmd[i].op = "verify_chip" /\ ~loc[i].raised) =>
            LET e == loc[i].expected
                m == \E c \in loc[i].info :
                        \/ c.chip_id # NoText /\ SameIgnoringCase(c.chip_id, e)
                        \/ c.mac # NoText /\ SameIgnoringCase(c.mac, e)
            IN
            /\ loc[i].matched <=> m
            /\ \A c \in loc[i].info :
                ~m => /\ loc[i].detail.kind = "mismatch"
                      /\ loc[i].detail.expected = e
                      /\ loc[i].detail.actual =
                           IF c.chip_id # NoText THEN c.chip_id ELSE c.mac

C14_Witness ==
    /\ pc[1] = "done" /\ cmd[1].op = "verify_chip" /\ loc[1].matched
    /\ loc[1].expected = MacLower
    /\ \E c \in loc[1].info : c.chip_id = IdUpper /\ c.mac = MacUpper

\* ------------------------------------------------------------------- scan

\* What ls prints, split at white space: the serial devices of the host.
Enumerations ==
    {<<>>} \cup {<<d>> : d \in DevicePaths}
           \cup UNION {{<<d, e>> : e \in DevicePaths \ {d}} : d \in DevicePaths}

ScanOutputs == {<<>>, <<LChip>>, <<LId>>, <<LMac>>, <<LMissing>>, <<LChip, LId>>}

\* cli.scan up to the with statement.
Scan(i, host) ==
    /\ Free(i)
    /\ cmd' = [cmd EXCEPT ![i] = [NoCmd EXCEPT !.op = "scan", !.host = host]]
    /\ loc' = [loc EXCEPT ![i] = NoLoc]
    /\ pc' = [pc EXCEPT ![i] = "sc_connect"]
    /\ UNCHANGED <<disk, procs, data>>

\* cli.scan: __enter__ connects.
ScConnect(i) ==
    /\ pc[i] = "sc_connect"
    /\ pc' = [pc EXCEPT ![i] = "sc_ls"]
    /\ loc' = [loc EXCEPT ![i] = ssh_connect(loc[i])]
    /\ UNCHANGED <<disk, procs, cmd, data>>

\* cli.scan: connect raises in __enter__, so the with block is not entered
\* and __exit__ does not run; the except branch exits 1.
ScConnectFail(i) ==
    /\ pc[i] = "sc_connect"
    /\ Exit(i, ssh_connect_failed(loc[i]), 1)
    /\ UNCHANGED <<disk, procs, cmd, data>>

\* scan_devices_remote: ls and the split of its output. Without a device
\* the result list is empty, cli.scan returns from inside the with block.
ScLs(i) ==
    /\ pc[i] = "sc_ls"
    /\ loc[i].client = "open"
    /\ \E enum \in Enumerations :
        LET l == [ssh_run_started(loc[i]) EXCEPT
                     !.enum = enum, !.paths = enum, !.results = <<>>]
        IN
        IF enum = <<>>
        THEN Exit(i, ssh_close(l), 0)
        ELSE /\ pc' = [pc EXCEPT ![i] = "dc_run"]
             /\ loc' = [loc EXCEPT ![i] = [l EXCEPT !.device = Head(enum)]]
    /\ UNCHANGED <<disk, procs, cmd, data>>

\* cli.scan: get_usb_path(ssh, device) for one result, taken to run one
\* command on the connection it is given; after the last one the with block
\* ends.
ScUsb(i) ==
    /\ pc[i] = "sc_usb"
    /\ loc[i].client = "open"
    /\ LET l == [ssh_run_started(loc[i]) EXCEPT !.paths = Tail(@)] IN
        IF l.paths = <<>>
        THEN Exit(i, ssh_close(l), 0)
        ELSE /\ pc' = [pc EXCEPT ![i] = "sc_usb"]
             /\ loc' = [loc EXCEPT ![i] = l]
    /\ UNCHANGED <<disk, procs, cmd, data>>

NextScan ==
    \/ \E h \in Hosts : Scan(1, h)
    \/ ScConnect(1)
    \/ ScConnectFail(1)
    \/ ScLs(1)
    \/ DcRun(1, ScanOutputs)
    \/ DcInstall(1)
    \/ DcRetry(1, ScanOutputs)
    \/ ScUsb(1)
    \/ RunError(1)
    \/ \E d \in DevicePaths, c \in {"none", "made"} : DetectChip(1, d, c)

SpecScan == Init /\ [][NextScan]_vars

\* C15: scan_devices_remote returns one result for each device that ls
\* listed, in that order, each with what detect_chip_remote returned for that
\* device; a device for which it returned None is in the list with None, and
\* the devices after it are probed all the same.
C15_ScanOneResultPerPath ==
    [][\A i \in Inv : cmd'[i].op = "scan" =>
        LET l == loc'[i]
            n == Len(l.results)
        IN
        /\ n <= Len(l.enum)
        /\ \A k \in 1..n : l.results[k].device = l.enum[k]
        /\ (pc'[i] = "sc_usb" \/ (pc'[i] = "done" /\ l.exit = 0))
             => n = Len(l.enum)
        /\ n = Len(loc[i].results) + 1
             => /\ l.results[n].info = l.info
                /\ loc[i].device = l.enum[n]
                /\ \A c \in l.info : c.device = l.enum[n]
                /\ \A k \in 1..(n - 1) : l.results[k] = loc[i].results[k]
      ]_vars

C15_Witness ==
    /\ pc[1] = "done" /\ cmd[1].op = "scan" /\ loc[1].exit = 0
    /\ Len(loc[1].results) = 2
    /\ loc[1].results[1].info = {}
    /\ loc[1].results[2].info # {}

ApiDevices ==
    {[name |-> n, chip_id |-> "0xA1", host |-> p[1], usb_path |-> "",
      remote_port |-> p[2], local_port |-> p[3], description |-> ""] :
        n \in FewNames,
        p \in {<<"pi@h1", DefaultBase, DefaultBase>>,
               <<"pi@h1", DefaultBase + 1, DefaultBase + 5>>,
               <<"pi@h2", DefaultBase, DefaultBase + 5>>}}

\* The bases a program hands to next_port.
ApiBases == {DefaultBase, DefaultBase + 1}

\* Between two calls no call is in progress.
ApiIdle == [NoCmd EXCEPT !.op = "Registry"]

\* The Device that a call of add_device was given.
ArgDevice(c) ==
    [name |-> c.name, chip_id |-> c.chip_id, host |-> c.host,
     usb_path |-> c.usb_path, remote_port |-> c.rport, local_port |-> c.lport,
     description |-> c.description]

\* A program makes a Registry: __init__ loads the file.
ApiOpen(i) ==
    /\ Free(i)
    /\ cmd' = [cmd EXCEPT ![i] = ApiIdle]
    /\ data' = [data EXCEPT ![i] = load_devices(disk)]
    /\ pc' = [pc EXCEPT ![i] = "api"]
    /\ loc' = [loc EXCEPT ![i] = NoLoc]
    /\ UNCHANGED <<disk, procs>>

\* The program is done with its Registry and ends.
ApiClose(i) ==
    /\ pc[i] = "api"
    /\ Exit(i, loc[i], 0)
    /\ UNCHANGED <<disk, procs, cmd, data>>

\* Registry.reload
ApiReload(i) ==
    /\ pc[i] = "api"
    /\ data' = [data EXCEPT ![i] = load_devices(disk)]
    /\ loc' = [loc EXCEPT ![i] =
         [@ EXCEPT !.asked = IF load_devices(disk) = data[i] THEN @ ELSE {},
                   !.freed = {}]]
    /\ UNCHANGED <<disk, procs, pc, cmd>>

\* The program calls add_device(device).
ApiAdd(i, device) ==
    /\ pc[i] = "api"
    /\ cmd' = [cmd EXCEPT ![i] =
         [NoCmd EXCEPT !.op = "add_device", !.name = device.name,
                       !.chip_id = device.chip_id, !.host = device.host,
                       !.usb_path = device.usb_path,
                       !.description = device.description,
                       !.lport = device.local_port,
                       !.rport = device.remote_port]]
    /\ pc' = [pc EXCEPT ![i] = "add_device"]
    /\ UNCHANGED <<disk, procs, data, loc>>

\* Registry.add_device
ApiAddDo(i) ==
    /\ pc[i] = "add_device"
    /\ LET doc == add_device(data[i], ArgDevice(cmd[i])) IN
        /\ data' = [data EXCEPT ![i] = doc]
        /\ disk' = save_devices(doc)
    /\ pc' = [pc EXCEPT ![i] = "api"]
    /\ loc' = [loc EXCEPT ![i] = [@ EXCEPT !.asked = {}, !.freed = {}]]
    /\ cmd' = [cmd EXCEPT ![i] = ApiIdle]
    /\ UNCHANGED procs

\* The program calls remove_device(name).
ApiRemove(i, name) ==
    /\ pc[i] = "api"
    /\ cmd' = [cmd EXCEPT ![i] = [NoCmd EXCEPT !.op = "remove_device",
                                               !.name = name]]
    /\ pc' = [pc EXCEPT ![i] = "remove_device"]
    /\ UNCHANGED <<disk, procs, data, loc>>

\* Registry.remove_device
ApiRemoveDo(i) ==
    /\ pc[i] = "remove_device"
    /\ LET name == cmd[i].name
           found == name \in DOMAIN data[i]
           doc == IF found THEN remove_device(data[i], name) ELSE data[i]
       IN
        /\ data' = [data EXCEPT ![i] = doc]
        /\ disk' = IF remove_device_saves(data[i], name)
                   THEN save_devices(doc) ELSE disk
        /\ loc' = [loc EXCEPT ![i] =
             [@ EXCEPT !.result = found,
                       !.asked = {},
                       !.freed = IF found
                                 THEN {[host |-> data[i][name].host,
                                        port |-> data[i][name].remote_port]}
                                 ELSE @]]
    /\ pc' = [pc EXCEPT ![i] = "api"]
    /\ cmd' = [cmd EXCEPT ![i] = ApiIdle]
    /\ UNCHANGED procs

\* The program calls next_port(host, base).
ApiNextPort(i, host, base) ==
    /\ pc[i] = "api"
    /\ cmd' = [cmd EXCEPT ![i] = [NoCmd EXCEPT !.op = "next_port",
                                               !.host = host, !.rport = base]]
    /\ pc' = [pc EXCEPT ![i] = "next_port"]
    /\ UNCHANGED <<disk, procs, data, loc>>

\* Registry.next_port
ApiNextPortDo(i) ==
    /\ pc[i] = "next_port"
    /\ LET host == cmd[i].host
           base == cmd[i].rport
           port == next_port(data[i], host, base)
       IN
        /\ data' = [data EXCEPT ![i] = next_port_data(data[i], host, port)]
        /\ loc' = [loc EXCEPT ![i] =
             [@ EXCEPT !.asked = {[host |-> host, base |-> base, port |-> port,
                                   again |-> \E a \in loc[i].asked :
                                       a.host = host /\ a.base = base]}]]
    /\ pc' = [pc EXCEPT ![i] = "api"]
    /\ cmd' = [cmd EXCEPT ![i] = ApiIdle]
    /\ UNCHANGED <<disk, procs>>

\* The register command of another process, run from start to end between
\* two steps of this program.
OtherRegister(name, chip_id, host) ==
    LET doc == load_devices(disk)
        c == [NoCmd EXCEPT !.op = "register", !.name = name,
                           !.chip_id = chip_id, !.host = host]
    IN
    /\ disk' = save_devices(add_device(doc, register_device(doc, c)))
    /\ UNCHANGED <<procs, pc, cmd, data, loc>>

\* A program works with one Registry while register commands of another
\* process write the file.
NextApi ==
    \/ ApiOpen(1)
    \/ ApiClose(1)
    \/ ApiReload(1)
    \/ \E d \in ApiDevices : ApiAdd(1, d)
    \/ ApiAddDo(1)
    \/ \E n \in FewNames : ApiRemove(1, n)
    \/ ApiRemoveDo(1)
    \/ \E h \in Hosts, b \in ApiBases : ApiNextPort(1, h, b)
    \/ ApiNextPortDo(1)
    \/ \E n \in FewNames : OtherRegister(n, "0xB2", "pi@h1")

SpecApi == Init /\ [][NextApi]_vars

\* C17: after add_device(device), get_device(device.name) is the device
\* given, equal in every field; the name has one record; the other names
\* have the records they had and no name has come or gone; the file holds
\* the document that is in memory.
C17_AddStoresRecord ==
    [][\A i \in Inv : (pc[i] = "add_device" /\ pc'[i] = "api") =>
        LET d == ArgDevice(cmd[i]) IN
        /\ get_device(data'[i], d.name) = {d}
        /\ Cardinality({x \in list_devices(data'[i]) : x.name = d.name}) = 1
        /\ \A n \in (DOMAIN data[i] \cup DOMAIN data'[i]) \ {d.name} :
            get_device(data'[i], n) = get_device(data[i], n)
        /\ disk'.exists
        /\ disk'.device = data'[i]
      ]_vars

C17_Witness ==
    /\ pc[1] = "api"
    /\ DOMAIN data[1] = FewNames
    /\ data[1]["esp1"].chip_id = "0xA1"
    /\ data[1]["esp1"].local_port # data[1]["esp1"].remote_port
    /\ data[1]["esp2"].chip_id = "0xB2"
    /\ disk.exists /\ disk.device = data[1]

\* C18: remove_device(name) returns True exactly when the name has a
\* record; then that record alone is deleted and the file holds the
\* document that is in memory; if the name has none it returns False and
\* neither the document in memory nor the file changes.
C18_RemoveTrueIffPresent ==
    [][\A i \in Inv : (pc[i] = "remove_device" /\ pc'[i] = "api") =>
        LET name == cmd[i].name
            present == get_device(data[i], name) # {}
        IN
        /\ loc'[i].result <=> present
        /\ IF present
           THEN /\ DOMAIN data'[i] = DOMAIN data[i] \ {name}
                /\ \A n \in DOMAIN data'[i] : data'[i][n] = data[i][n]
                /\ disk'.exists
                /\ disk'.device = data'[i]
           ELSE /\ data'[i] = data[i]
                /\ disk' = disk
      ]_vars

C18_Witness ==
    /\ pc[1] = "api"
    /\ loc[1].result
    /\ loc[1].freed # {}
    /\ DOMAIN data[1] = {"esp2"}
    /\ disk.exists /\ disk.device = data[1]

\* C19: next_port changes neither the document in memory nor the file, and
\* a call with the host and base of the call before it, with no add_device
\* or remove_device between the two, returns what that call returned.
C19_NextPortPure ==
    [][\A i \in Inv : (pc[i] = "next_port" /\ pc'[i] = "api") =>
        /\ data'[i] = data[i]
        /\ disk' = disk
        /\ \A b \in loc'[i].asked :
            /\ b.host = cmd[i].host /\ b.base = cmd[i].rport
            /\ \A a \in loc[i].asked :
                (a.host = b.host /\ a.base = b.base) => b.port = a.port
      ]_vars

C19_Witness ==
    /\ pc[1] = "api"
    /\ \E a \in loc[1].asked : a.again /\ a.port > a.base
    /\ disk.device # data[1]

\* next_port is called for the host of the record removed last, and that
\* host has a record on a higher port.
FreedBelow(i, f) ==
    /\ pc[i] = "next_port"
    /\ f \in loc[i].freed
    /\ f.host = cmd[i].host
    /\ \E d \in list_devices(data[i]) :
        d.host = f.host /\ d.remote_port > f.port

\* C20 as the specification has it: after a record is removed from a host
\* that keeps a record on a higher port, the next next_port for that host
\* does not return the port of the removed record.
C20_FreedPortNotReused ==
    [][\A i \in Inv : (pc[i] = "next_port" /\ pc'[i] = "api") =>
        \A f \in loc[i].freed : FreedBelow(i, f) =>
            \A b \in loc'[i].asked : b.port # f.port
      ]_vars

\* C20, as the code has it: after a record is removed from a host that keeps
\* a record on a higher port, the next next_port for that host returns the
\* smallest port from base on that no record of the host uses, which is the
\* port of the removed record when base is not above it, no other record of
\* the host uses it and every port from base up to it is in use.
C20_FreedPortReused ==
    [][\A i \in Inv : (pc[i] = "next_port" /\ pc'[i] = "api") =>
        \A f \in loc[i].freed : FreedBelow(i, f) =>
            LET used == UsedPorts(data[i], f.host)
                base == cmd[i].rport
            IN
            \A b \in loc'[i].asked :
                /\ b.port >= base
                /\ b.port \notin used
                /\ \A q \in base..(b.port - 1) : q \in used
                /\ (base <= f.port /\ f.port \notin used
                    /\ \A q \in base..(f.port - 1) : q \in used)
                     => b.port = f.port
      ]_vars

C20_Witness ==
    /\ pc[1] = "api"
    /\ \E f \in loc[1].freed, a \in loc[1].asked :
        /\ a.host = f.host /\ a.port = f.port
        /\ \E d \in list_devices(data[1]) :
            d.host = f.host /\ d.remote_port > f.port

\* ------------------------------------------------- devices.toml as bytes

\* In the specifications above a file is the document tomllib reads from
\* it, which is what it is as long as its text is ASCII. Here the
\* description of an entry is text: a sequence of code points in memory, a
\* sequence of bytes in the file. The other fields stay ASCII.

\* str.encode() on one code point: UTF-8, up to U+07FF.
encode_char(c) ==
    IF c < 128 THEN <<c>> ELSE <<192 + (c \div 64), 128 + (c % 64)>>

\* str.encode(): UTF-8, whatever the locale.
RECURSIVE encode(_)
encode(text) ==
    IF text = <<>> THEN <<>>
    ELSE encode_char(Head(text)) \o encode(Tail(text))

\* bytes.decode("utf-8") on bytes that encode() wrote.
RECURSIVE decode_utf8(_)
decode_utf8(bytes) ==
    IF bytes = <<>> THEN <<>>
    ELSE IF bytes[1] < 128
    THEN <<bytes[1]>> \o decode_utf8(Tail(bytes))
    ELSE <<(bytes[1] - 192) * 64 + (bytes[2] - 128)>>
            \o decode_utf8(Tail(Tail(bytes)))

\* bytes.decode("iso8859-1"): every byte is the code point of its value.
decode_latin1(bytes) == [k \in 1..Len(bytes) |-> bytes[k]]

\* Path.read_text() without an encoding decodes with the locale's encoding.
read_text(bytes, encoding) ==
    IF encoding = "utf-8" THEN decode_utf8(bytes) ELSE decode_latin1(bytes)

Encodings == {"utf-8", "iso8859-1"}

\* config.load_devices in a process whose locale has this encoding.
load_devices_as(file, encoding) ==
    IF file.exists
    THEN [n \in DOMAIN file.device |->
            [file.device[n] EXCEPT !.description = read_text(@, encoding)]]
    ELSE EmptyDoc

\* config.save_devices: write_bytes of the encoded text.
save_devices_bytes(doc) ==
    [exists |-> TRUE,
     device |-> [n \in DOMAIN doc |->
                    [doc[n] EXCEPT !.description = encode(@)]]]

\* The descriptions a program gives: "", "a", U+00E9, "a" U+00E9.
StoreDescriptions == {<<>>, <<97>>, <<233>>, <<97, 233>>}

\* Every description of doc fits the file.
Fits(doc) == \A n \in DOMAIN doc : Len(encode(doc[n].description)) <= MaxBytes

\* A process makes a Registry: __init__ loads the file.
StOpen(i, encoding) ==
    /\ Free(i)
    /\ cmd' = [cmd EXCEPT ![i] = [NoCmd EXCEPT !.op = "store"]]
    /\ data' = [data EXCEPT ![i] = load_devices_as(disk, encoding)]
    /\ pc' = [pc EXCEPT ![i] = "store"]
    /\ loc' = [loc EXCEPT ![i] = [NoLoc EXCEPT !.encoding = encoding]]
    /\ UNCHANGED <<disk, procs>>

\* Registry.add_device
StAdd(i, name, host, description) ==
    /\ pc[i] = "store"
    /\ LET device == [name |-> name, chip_id |-> "0xA1", host |-> host,
                      usb_path |-> "", remote_port |-> DefaultBase,
                      local_port |-> DefaultBase, description |-> description]
           doc == add_device(data[i], device)
       IN
        /\ Fits(doc)
        /\ data' = [data EXCEPT ![i] = doc]
        /\ disk' = save_devices_bytes(doc)
    /\ UNCHANGED <<procs, pc, cmd, loc>>

\* Registry.save
StSave(i) ==
    /\ pc[i] = "store"
    /\ Fits(data[i])
    /\ disk' = save_devices_bytes(data[i])
    /\ UNCHANGED <<procs, pc, cmd, data, loc>>

\* The process ends.
StClose(i) ==
    /\ pc[i] = "store"
    /\ Exit(i, loc[i], 0)
    /\ UNCHANGED <<disk, procs, cmd, data>>

NextStore ==
    \/ \E e \in Encodings : StOpen(1, e)
    \/ \E n \in FewNames, h \in Hosts, d \in StoreDescriptions :
        StAdd(1, n, h, d)
    \/ StSave(1)
    \/ StClose(1)

SpecStore == Init /\ [][NextStore]_vars

\* C21: a Registry that saves what it loaded leaves the document as it
\* loads it unchanged, and every device of the document equals the device
\* rebuilt by from_dict from its to_dict under its name.
C21_RoundTrip ==
    [][\A i \in Inv :
        (pc[i] = "store" /\ UNCHANGED <<pc, cmd, data, loc>>
         /\ data[i] = load_devices_as(disk, loc[i].encoding))
          => /\ load_devices_as(disk', loc[i].encoding) = data[i]
             /\ \A d \in list_devices(data[i]) :
                    from_dict(d.name, to_dict(d)) = d
      ]_vars

\* ----------------------------------------------------------------- verify

\* A chip_id of the registry as the text verify_chip_id compares.
Chars(s) ==
    CASE s = "0xA1" -> <<"0", "x", "A", "1">>
      [] s = "0xB2" -> <<"0", "x", "B", "2">>
      [] OTHER -> NoText

\* "Chip ID: 0xa1"
LIdA1 == Line(FALSE, NoText, TRUE, <<"0", "x", "a", "1">>, FALSE, NoText, FALSE)

VerifyOutputs == {<<>>, <<LId>>, <<LIdA1>>, <<LMissing>>}

\* cli.verify up to the lookup of the device, exit 1 when it is not found.
Verify(i, name) ==
    /\ Free(i)
    /\ cmd' = [cmd EXCEPT ![i] = [NoCmd EXCEPT !.op = "verify", !.name = name]]
    /\ data' = [data EXCEPT ![i] = load_devices(disk)]
    /\ LET found == get_device(load_devices(disk), name) IN
       IF found = {}
       THEN Exit(i, NoLoc, 1)
       ELSE LET dev == CHOOSE d \in found : TRUE IN
            /\ pc' = [pc EXCEPT ![i] = "vf_probe"]
            /\ loc' = [loc EXCEPT ![i] =
                 [NoLoc EXCEPT !.dev = dev.name, !.host = dev.host,
                               !.lport = dev.local_port,
                               !.expected = Chars(dev.chip_id),
                               !.device = IF dev.usb_path # ""
                                          THEN "/dev/" \o dev.name
                                          ELSE "/dev/ttyUSB0"]]
    /\ UNCHANGED <<disk, procs>>

\* cli.verify: exit 1 when the device's port is not open.
VfProbe(i) ==
    /\ pc[i] = "vf_probe"
    /\ IF is_port_open(procs, loc[i].lport)
       THEN /\ pc' = [pc EXCEPT ![i] = "vf_connect"]
            /\ UNCHANGED loc
       ELSE Exit(i, loc[i], 1)
    /\ UNCHANGED <<disk, procs, cmd, data>>

\* cli.verify: __enter__ connects.
VfConnect(i) ==
    /\ pc[i] = "vf_connect"
    /\ pc' = [pc EXCEPT ![i] = "dc_run"]
    /\ loc' = [loc EXCEPT ![i] = ssh_connect(loc[i])]
    /\ UNCHANGED <<disk, procs, cmd, data>>

\* cli.verify: connect raises in __enter__; the except branch exits 1.
VfConnectFail(i) ==
    /\ pc[i] = "vf_connect"
    /\ Exit(i, ssh_connect_failed(loc[i]), 1)
    /\ UNCHANGED <<disk, procs, cmd, data>>

\* Commands that take the name of a device, on one host and one at a time,
\* while forwarding processes may exit; a tunnel outside the registry's
\* ports can be made by a call of create_tunnel.
NextNamed ==
    \/ \E n \in FewNames : Register(1, n, "0xA1", "pi@h1", "", "")
    \/ RegisterAdd(1)
    \/ \E n \in FewNames : Unregister(1, n)
    \/ UnregisterRemove(1)
    \/ CreateTunnel(1, "pi@h1", DefaultBase * 10 + 1, DefaultBase)
    \/ \E n \in FewNames : Connect(1, n)
    \/ ConnectNext(1)
    \/ CtFind(1)
    \/ CtKill(1)
    \/ CtLaunchFail(1)
    \/ CtLaunchOk(1)
    \/ CtProbe(1)
    \/ \E n \in FewNames : Disconnect(1, n)
    \/ DisconnectNext(1)
    \/ KtFind(1)
    \/ KtKill(1)
    \/ \E n \in FewNames : Verify(1, n)
    \/ VfProbe(1)
    \/ VfConnect(1)
    \/ VfConnectFail(1)
    \/ DcRun(1, VerifyOutputs)
    \/ DcInstall(1)
    \/ DcRetry(1, VerifyOutputs)
    \/ RunError(1)
    \/ \E p \in procs : ProcExit(p)

SpecNamed == Init /\ [][NextNamed]_vars

\* Invocation i takes a step of a command that was given a name.
NamedStep(i) ==
    /\ <<pc[i], cmd[i], loc[i]>> # <<pc'[i], cmd'[i], loc'[i]>>
    /\ cmd'[i].op \in {"connect", "disconnect", "verify", "unregister"}
    /\ cmd'[i].name # ""

\* C22: connect, disconnect, verify and unregister with the name of a device
\* that the registry does not have end with a non-zero exit status without
\* an exception, and no step of theirs changes the registry file, creates or
\* signals a forwarding process, connects to a host or runs a remote command.
C22_UnknownNameAborts ==
    [][\A i \in Inv :
        (NamedStep(i) /\ cmd'[i].name \notin DOMAIN load_devices(disk)) =>
            /\ pc'[i] \in {"done", "unregister"}
            /\ pc'[i] = "done" => loc'[i].exit > 0 /\ ~loc'[i].raised
            /\ pc[i] \in {"idle", "done", "unregister"}
            /\ disk' = disk
            /\ procs' = procs
            /\ loc'[i].connects = 0 /\ loc'[i].nexec = 0
      ]_vars

C22_Witness ==
    /\ pc[1] = "done" /\ cmd[1].op = "verify" /\ loc[1].exit = 1
    /\ cmd[1].name = "esp2"
    /\ DOMAIN load_devices(disk) = {"esp1"}
    /\ \E p \in procs : p.lport = DefaultBase

\* --------------------------------------------------- the registration race

\* What invocation i had loaded, once it has registered its device: its
\* document without the record it added.
Snapshot(i) == [n \in DOMAIN data[i] \ {cmd[i].name} |-> data[i][n]]

\* Invocations i and j have each registered a new name on the same host,
\* and neither had the other's record in what it loaded.
Raced(i, j) ==
    /\ i # j
    /\ pc[i] = "done" /\ pc[j] = "done"
    /\ cmd[i].op = "register" /\ cmd[j].op = "register"
    /\ ~loc[i].existing /\ ~loc[j].existing
    /\ cmd[i].name # cmd[j].name
    /\ cmd[i].host = cmd[j].host
    /\ cmd[j].name \notin DOMAIN data[i]
    /\ cmd[i].name \notin DOMAIN data[j]

MacLines(out) ==
    {k \in 1..Len(out) :
        /\ ~out[k].has_chip /\ ~out[k].has_id
        /\ out[k].has_mac /\ out[k].mac # NoText}

C25_SignalsOwnPortOnly ==
    [][\A i \in Inv :
        /\ (pc[i] \in {"ct_find", "kt_find"} /\ StepOf(i)) =>
              \A p \in procs : p.pid = loc'[i].pid => p.lport = loc[i].lport
        /\ (pc[i] \in {"ct_kill", "kt_kill"} /\ StepOf(i)) =>
              \A p \in procs :
                  (~p.sig /\ p \notin procs'
                   /\ [p EXCEPT !.sig = TRUE] \in procs')
                     => p.lport = loc[i].lport
      ]_vars

\* ------------------------------------------------ the tunnel of a device

\* The live forwarding processes from dev's local port to dev's own host and
\* remote port.
OwnTunnels(ps, dev) ==
    {p \in ps : /\ p.lport = dev.local_port
                /\ p.host = dev.host
                /\ p.rport = dev.remote_port}

\* C26: when connect, over a registry built by register, reports a device as
\* connected or as already connected, a live forwarding process runs from
\* the device's local port to its own host and remote port.
C26_ReportedHasOwnTunnel ==
    [][\A i \in Inv :
        (cmd[i].op = "connect" /\ pc[i] \in {"connect_loop"} \cup CtPcs) =>
            \A n \in (loc'[i].connected \cup loc'[i].already)
                        \ (loc[i].connected \cup loc[i].already) :
                \A dev \in get_device(data[i], n) :
                    OwnTunnels(procs', dev) # {}
      ]_vars

\* ------------------------------------------- a registry file from outside

\* The tables a devices.toml that was pulled by sync or written by hand can
\* hold for a device: every field, some fields, or the bare header
\* [device.<name>] with no field.
EditedEntries ==
    {[chip_id |-> "0xA1", host |-> "pi@h1", usb_path |-> "",
      remote_port |-> DefaultBase + 1, local_port |-> DefaultBase + 1,
      description |-> ""],
     [chip_id |-> "0xB2", host |-> "pi@h2"],
     [host |-> "pi@h1", remote_port |-> DefaultBase],
     [k \in {} |-> ""]}

\* The registry files found at the start: none, or one with such tables.
EditedFiles ==
    {[exists |-> FALSE, device |-> EmptyDoc]}
      \cup {[exists |-> TRUE, device |-> doc] :
              doc \in UNION {[S -> EditedEntries] : S \in SUBSET FewNames}}

\* cli.status: every device of the registry with the state of its port.
Status(i) ==
    /\ Free(i)
    /\ cmd' = [cmd EXCEPT ![i] = [NoCmd EXCEPT !.op = "status"]]
    /\ data' = [data EXCEPT ![i] = load_devices(disk)]
    /\ LET devices == list_devices(load_devices(disk)) IN
       Exit(i, [NoLoc EXCEPT !.devices = devices,
                  !.connected = {d.name : d \in
                      {e \in devices : is_port_open(procs, e.local_port)}}], 0)
    /\ UNCHANGED <<disk, procs>>

\* cli.monitor up to the serial session: the device is looked up by name
\* (exit 1 when it is not found) and its port must be open (exit 1).
Monitor(i, device) ==
    /\ Free(i)
    /\ cmd' = [cmd EXCEPT ![i] = [NoCmd EXCEPT !.op = "monitor", !.name = device]]
    /\ data' = [data EXCEPT ![i] = load_devices(disk)]
    /\ LET dev == get_device(load_devices(disk), device)
           l == [NoLoc EXCEPT !.devices = dev] IN
       IF dev = {} \/ \E d \in dev : ~is_port_open(procs, d.local_port)
       THEN Exit(i, l, 1)
       ELSE /\ loc' = [loc EXCEPT ![i] = l]
            /\ pc' = [pc EXCEPT ![i] = "monitor"]
    /\ UNCHANGED <<disk, procs>>

InitEdited ==
    /\ disk \in EditedFiles
    /\ procs = {}
    /\ pc = [i \in Inv |-> "idle"]
    /\ cmd = [i \in Inv |-> NoCmd]
    /\ data = [i \in Inv |-> EmptyDoc]
    /\ loc = [i \in Inv |-> NoLoc]

\* Commands run one at a time on a registry file that was there before.
NextEdited ==
    \/ \E n \in Names : Register(1, n, "0xA1", "pi@h1", "", "")
    \/ RegisterAdd(1)
    \/ \E n \in Names : Unregister(1, n)
    \/ UnregisterRemove(1)
    \/ Status(1)
    \/ \E n \in Names : Monitor(1, n)

SpecEdited == InitEdited /\ [][NextEdited]_vars

\* C27: on every loaded document get and list agree: get_device(name) gives
\* a record exactly when list_devices() holds a record of that name, and
\* the two are equal in every field, also for a stored entry without fields.
C27_GetAgreesWithList ==
    \A i \in Inv :
        /\ (pc[i] \in {"done", "monitor"} /\ cmd[i].op = "monitor") =>
              loc[i].devices =
                  {d \in list_devices(data[i]) : d.name = cmd[i].name}
        /\ (pc[i] = "done" /\ cmd[i].op = "status") =>
              \A d \in loc[i].devices : get_device(data[i], d.name) = {d}

====
